---- MODULE Spec2Model ----
(***************************************************************************)
(* RAY.js (src/ray.js, lines 9-543: the current revision of the module).   *)
(* The module closure's variables are the state; every method of `api` is  *)
(* an operator from a state record to a state record, translated statement *)
(* by statement, and an action that applies it.  The host (document,       *)
(* canvases and their 2D contexts, resize subscriptions, the animation     *)
(* frame queue, the clock) is modelled by what the code reads and writes.  *)
(***************************************************************************)
EXTENDS Integers, Sequences, FiniteSets, TLC

VARIABLES
    \* --- module closure (src/ray.js:10-26)
    canvas, ctx, container, width, height,
    lastFill, lastStroke, lastLineWidth,
    running, lastTime, resizeObserver, ownsCanvas, glowState,
    noise_p, noise_initialized,
    \* --- host: document and canvases
    surf,        \* surf[c]: drawing state of the 2D context of canvas c
    parent,      \* parent[c]: parentNode of canvas c ("null" when detached)
    cdim,        \* cdim[c]: pixel size of canvas c (canvas.width/height)
    has2d,       \* has2d[c]: canvas.getContext("2d") yields a context
    rects,       \* rects[p]: size reported for container p
    observers,   \* ResizeObservers that are observing
    winListener, \* window has `resize` registered for "resize"
    hasRO,       \* window.ResizeObserver exists
    dpr,         \* window.devicePixelRatio
    \* --- host: clock and animation frames
    now,         \* performance.now()
    frameTime,   \* timestamp of the latest display refresh
    rafQueue,    \* frame closures waiting for the next display refresh
    \* --- observation of the latest call
    call,        \* the operation that ran last and its arguments
    ret,         \* what it returned: "api", "undefined", "throw", "value"
    ops,         \* the surface operations it issued, in order
    calls,       \* the user callback invocations it made, in order
    stamped,     \* the stamps it submitted through api.stamp, in order
    strokes      \* the brush and splatter calls made so far

vars == <<canvas, ctx, container, width, height, lastFill, lastStroke,
          lastLineWidth, running, lastTime, resizeObserver, ownsCanvas,
          glowState, surf, parent, cdim, has2d, rects, observers, winListener,
          hasRO, dpr, now, frameTime, rafQueue, call, ret, ops, calls,
          noise_p, noise_initialized, stamped, strokes>>

-----------------------------------------------------------------------------
(* Bounds of the model *)

\* own canvases that may exist at once (ids are reused once released)
MaxOwn == 2
\* ResizeObservers that may exist at once
MaxObs == 2
\* frame closures that may be queued at once
MaxQueue == 2
\* the clock stops advancing here
MaxTime == 4
\* depth of the context's save() stack left open between calls
MaxSave == 1
\* largest coordinate of a stroke end point (strokes lie on the x axis)
MaxCoord == 2
\* length of the tape of Math.random() outcomes one call draws from
RndLen == 2
\* brush and splatter calls in one behaviour
MaxStrokes == 1

-----------------------------------------------------------------------------
(* Values *)

Null == "null"
\* a line width that is not set (lastLineWidth = null); 0 is no line width
NoWidth == 0
ObsIds == {"ro" \o ToString(i) : i \in 1..MaxObs}

Body == "body"
Div == "div"
Containers == {Body, Div}

OwnIds == {"own" \o ToString(i) : i \in 1..MaxOwn}
UserCanvas == "user"
OffCanvas == "off"
\* a context-like object without a .canvas
BareCtx == "bare"
\* a canvas that already holds a context of another kind
GlCanvas == "gl"
Canvases == OwnIds \cup {UserCanvas, OffCanvas, GlCanvas}
Ctxs == Canvases \cup {BareCtx}

\* canvas of a context (ctx.canvas)
CanvasOf(c) == IF c \in Canvases THEN c ELSE Null

inkColor == "#1a1a1a"
Black == "#000000"
White == "#ffffff"
\* the colours a caller passes; White is what knife and oil add
Colors == {Black, inkColor}
Widths == {1, 2}

Sizes == {[w |-> 2, h |-> 1], [w |-> 3, h |-> 2]}
\* a canvas element is 300 x 150 until sized
DefaultDim == [w |-> 300, h |-> 150]
\* size of the offscreen buffer canvas
OffDim == [w |-> 4, h |-> 4]

\* drawing state of a fresh (or reset) 2D context
DefaultSurf == [fillStyle |-> Black, strokeStyle |-> Black, lineWidth |-> 1,
                xf |-> 1, stack |-> <<>>]

\* a time gap as after a suspended tab
SuspendGap == 3

\* entries of the permutation the noise table holds twice
TableSize == 256
\* numbers with a fraction are held in thousandths
Unit == 1000

-----------------------------------------------------------------------------
(* The state as one record, so that a method's statements compose *)

Cur == [canvas |-> canvas, ctx |-> ctx, container |-> container,
        width |-> width, height |-> height, lastFill |-> lastFill,
        lastStroke |-> lastStroke, lastLineWidth |-> lastLineWidth,
        running |-> running, lastTime |-> lastTime,
        resizeObserver |-> resizeObserver, ownsCanvas |-> ownsCanvas,
        glowState |-> glowState, noise_p |-> noise_p,
        noise_initialized |-> noise_initialized,
        surf |-> surf, parent |-> parent,
        cdim |-> cdim, has2d |-> has2d, rects |-> rects,
        observers |-> observers,
        winListener |-> winListener, rafQueue |-> rafQueue,
        \* firing: the frame closures of the display refresh under way
        firing |-> <<>>,
        \* r: what the latest internal call returned; tape, rk: the outcomes
        \* Math.random() and noise() will yield, and how many were drawn
        r |-> FALSE, tape |-> <<FALSE>>, rk |-> 0,
        ret |-> "api", ops |-> <<>>, calls |-> <<>>, stamped |-> <<>>]

\* an own canvas id that names no live canvas
FreeOwn(S) == {id \in OwnIds : S.canvas # id /\ S.ctx # id /\ S.parent[id] = Null}

\* a canvas nothing refers to any more is forgotten
Collected(S0) ==
    LET S == CHOOSE x \in {S0} : TRUE
        free == FreeOwn(S)
    IN [S EXCEPT !.surf = [c \in Ctxs |-> IF c \in free THEN DefaultSurf ELSE S.surf[c]],
                 !.cdim = [c \in Canvases |-> IF c \in free THEN DefaultDim ELSE S.cdim[c]],
                 !.has2d = [c \in Canvases |-> IF c \in free THEN FALSE ELSE S.has2d[c]]]

Set(S0) ==
    \E S \in {Collected(S0)} :
    /\ canvas' = S.canvas /\ ctx' = S.ctx /\ container' = S.container
    /\ width' = S.width /\ height' = S.height
    /\ lastFill' = S.lastFill /\ lastStroke' = S.lastStroke
    /\ lastLineWidth' = S.lastLineWidth
    /\ running' = S.running /\ lastTime' = S.lastTime
    /\ resizeObserver' = S.resizeObserver /\ ownsCanvas' = S.ownsCanvas
    /\ glowState' = S.glowState /\ surf' = S.surf /\ parent' = S.parent
    /\ cdim' = S.cdim /\ has2d' = S.has2d /\ rects' = S.rects
    /\ observers' = S.observers
    /\ winListener' = S.winListener /\ rafQueue' = S.rafQueue
    /\ ret' = S.ret /\ ops' = S.ops /\ calls' = S.calls
    /\ noise_p' = S.noise_p /\ noise_initialized' = S.noise_initialized
    /\ stamped' = S.stamped

\* one operation issued on context c
Op(S, name, v) == [S EXCEPT !.ops = Append(@, <<name, S.ctx, v>>)]

Returns(S, r) == [S EXCEPT !.ret = r]

-----------------------------------------------------------------------------
(* Style cache: src/ray.js:71-98 *)

\* ctx.<attr> = v, for the attributes the model tracks
Write(S, attr, v) ==
    [S EXCEPT !.surf[S.ctx][attr] = v, !.ops = Append(@, <<attr, S.ctx, v>>)]

\* ctx.save() / ctx.restore(): the drawing state is pushed and popped
Saved(sf) == [fillStyle |-> sf.fillStyle, strokeStyle |-> sf.strokeStyle,
              lineWidth |-> sf.lineWidth, xf |-> sf.xf]
ctxSave(S) ==
    [S EXCEPT !.surf[S.ctx].stack = Append(@, Saved(S.surf[S.ctx])),
              !.ops = Append(@, <<"save", S.ctx, Null>>)]
ctxRestore(S) ==
    LET sf == S.surf[S.ctx]
        n == Len(sf.stack)
    IN IF n = 0 THEN Op(S, "restore", Null)
       ELSE [S EXCEPT !.surf[S.ctx] =
                          [fillStyle |-> sf.stack[n].fillStyle,
                           strokeStyle |-> sf.stack[n].strokeStyle,
                           lineWidth |-> sf.stack[n].lineWidth,
                           xf |-> sf.stack[n].xf,
                           stack |-> SubSeq(sf.stack, 1, n - 1)],
                      !.ops = Append(@, <<"restore", S.ctx, Null>>)]

setFillAlways(S, fill) ==
    IF fill = Null THEN [S EXCEPT !.r = FALSE]
    ELSE [Write(S, "fillStyle", fill) EXCEPT !.lastFill = fill, !.r = TRUE]
setFill(S, fill) ==
    IF fill = Null THEN [S EXCEPT !.r = FALSE]
    ELSE IF fill # S.lastFill
         THEN [Write(S, "fillStyle", fill) EXCEPT !.lastFill = fill, !.r = TRUE]
         ELSE [S EXCEPT !.r = TRUE]

setStroke(S, stroke, widthValue) ==
    IF stroke = Null THEN [S EXCEPT !.r = FALSE]
    ELSE LET S1 == IF stroke # S.lastStroke
                   THEN [Write(S, "strokeStyle", stroke) EXCEPT !.lastStroke = stroke]
                   ELSE S
             S2 == IF widthValue # NoWidth /\ widthValue # S1.lastLineWidth
                   THEN [Write(S1, "lineWidth", widthValue)
                            EXCEPT !.lastLineWidth = widthValue]
                   ELSE S1
         IN [S2 EXCEPT !.r = TRUE]

syncStyles(S) ==
    IF S.ctx = Null THEN S
    ELSE [S EXCEPT !.lastFill = S.surf[S.ctx].fillStyle,
                   !.lastStroke = S.surf[S.ctx].strokeStyle,
                   !.lastLineWidth = S.surf[S.ctx].lineWidth,
                   !.ops = Append(@, <<"sync", S.ctx,
                                       [fillStyle |-> S.surf[S.ctx].fillStyle,
                                        strokeStyle |-> S.surf[S.ctx].strokeStyle,
                                        lineWidth |-> S.surf[S.ctx].lineWidth]>>)]

-----------------------------------------------------------------------------
(* Math utilities and noise: src/ray.js:32-69.  Numbers with a fraction    *)
(* are integers counting thousandths; a product or quotient is rounded     *)
(* down to the thousandth.                                                 *)

\* a * b for two numbers in thousandths
Mul(a, b) == (a * b) \div Unit

Abs(n) == IF n < 0 THEN 0 - n ELSE n
Max(a, b) == IF a > b THEN a ELSE b
Min(a, b) == IF a < b THEN a ELSE b
\* Math.floor of a number in thousandths, as an integer
Floor(v) == v \div Unit

\* lerp(a, b, t) = a + (b - a) * t
lerpSwapped(a, b, t) == b + Mul(a - b, t)
lerp(a, b, t) == a + Mul(b - a, t)
clampWrapped(v, min, max) == IF v > max THEN min ELSE IF v < min THEN max ELSE v
clamp(v, min, max) == Max(min, Min(max, v))

\* Math.random(): the tape holds, draw by draw, whether the value is high
\* (just below 1) or low (0)
rnd(S) == S.tape[(S.rk % Len(S.tape)) + 1]
random(S) == IF rnd(S) THEN Unit - 1 ELSE 0
drawn(S) == [S EXCEPT !.rk = @ + 1]

\* lines 43-46: noise_p[i] and noise_p[r] change places
swapped(p, i, r) == [p EXCEPT ![i + 1] = p[r + 1], ![r + 1] = p[i + 1]]

\* lines 42-47: for (let i = 255; i > 0; i--), here the iterations
\* i = hi down to i = lo, the upper half of the range before the lower
RECURSIVE shuffle(_, _, _)
shuffle(S, hi, lo) ==
    IF hi < lo THEN S
    ELSE IF hi = lo
    THEN LET r == Floor(random(S) * (hi + 1))
         IN [drawn(S) EXCEPT !.noise_p = swapped(@, hi, r)]
    ELSE LET mid == (hi + lo + 1) \div 2
             S1 == shuffle(S, hi, mid)
         IN IF S1.rk >= 0 THEN shuffle(S1, mid - 1, lo) ELSE S1

initNoise(S) ==
    LET S1 == [S EXCEPT !.noise_p = [k \in 1..(2 * TableSize) |->
                                        IF k <= TableSize THEN k - 1 ELSE @[k]]]
        S2 == shuffle(S1, TableSize - 1, 1)
    IN [S2 EXCEPT !.noise_p = [k \in 1..(2 * TableSize) |->
                                  S2.noise_p[((k - 1) % TableSize) + 1]],
                  !.noise_initialized = TRUE]

\* _fade(t) = t * t * t * (t * (t * 6 - 15) + 10)
fade(t) == Mul(Mul(Mul(t, t), t), Mul(t, t * 6 - 15 * Unit) + 10 * Unit)

\* _grad(hash, x, y, z)
grad(hash, x, y, z) ==
    LET h == hash % 16
        u == IF h < 8 THEN x ELSE y
        v == IF h < 4 THEN y ELSE IF h = 12 \/ h = 14 THEN x ELSE z
    IN (IF h % 2 = 0 THEN u ELSE 0 - u) + (IF (h \div 2) % 2 = 0 THEN v ELSE 0 - v)

\* lines 59-68: the value noise(x, y, z) yields from table p
noiseValue(p, x0, y0, z0) ==
    LET X == Floor(x0) % TableSize
        Y == Floor(y0) % TableSize
        Z == Floor(z0) % TableSize
        x == x0 - Floor(x0) * Unit
        y == y0 - Floor(y0) * Unit
        z == z0 - Floor(z0) * Unit
        u == fade(x)
        v == fade(y)
        w == fade(z)
        A == p[X + 1] + Y
        AA == p[A + 1] + Z
        AB == p[A + 2] + Z
        B == p[X + 2] + Y
        BA == p[B + 1] + Z
        BB == p[B + 2] + Z
    IN lerp(lerp(lerp(grad(p[AA + 1], x, y, z), grad(p[BA + 1], x - Unit, y, z), u),
                 lerp(grad(p[AB + 1], x, y - Unit, z),
                      grad(p[BB + 1], x - Unit, y - Unit, z), u), v),
            lerp(lerp(grad(p[AA + 2], x, y, z - Unit),
                      grad(p[BA + 2], x - Unit, y, z - Unit), u),
                 lerp(grad(p[AB + 2], x, y - Unit, z - Unit),
                      grad(p[BB + 2], x - Unit, y - Unit, z - Unit), u), v), w)

\* line 58: the table is built when no call has built it
noiseBuildsAlways(S) == TRUE
noiseBuilds(S) == ~S.noise_initialized

\* noise(x, y, z); the value is left in r
noise(S, x, y, z) ==
    LET S1 == IF noiseBuilds(S) THEN initNoise(S) ELSE S
    IN [S1 EXCEPT !.r = noiseValue(S1.noise_p, x, y, z)]

-----------------------------------------------------------------------------
(* Lifecycle: src/ray.js:100-195 *)

resize(S) ==
    IF S.canvas = Null \/ S.ctx = Null THEN S
    ELSE LET rect == S.rects[S.container]
             S1 == [S EXCEPT !.width = rect.w, !.height = rect.h,
                        \* canvas.width = ...: the canvas is resized and its
                        \* own context's drawing state is reset
                        !.cdim[S.canvas] = [w |-> rect.w * dpr, h |-> rect.h * dpr],
                        !.surf[S.canvas] = DefaultSurf]
         IN syncStyles(Write(S1, "xf", dpr))

\* line 191: the canvas is taken out of the document
destroyRemovesAlways(S) == S.canvas # Null /\ S.parent[S.canvas] # Null
destroyRemoves(S) ==
    S.canvas # Null /\ S.parent[S.canvas] # Null /\ S.ownsCanvas

destroy(S) ==
    LET S1 == IF S.resizeObserver # Null
              THEN [S EXCEPT !.observers = @ \ {S.resizeObserver},
                             !.resizeObserver = Null]
              ELSE S
        S2 == [S1 EXCEPT !.winListener = FALSE]
        S3 == IF destroyRemoves(S2)
              THEN [S2 EXCEPT !.parent[S2.canvas] = Null]
              ELSE S2
    IN [S3 EXCEPT !.canvas = Null, !.ctx = Null, !.running = FALSE,
                  !.ownsCanvas = FALSE, !.ret = "api"]

\* an observer id that names no live observer
FreeObs(S) == {id \in ObsIds : id \notin S.observers /\ S.resizeObserver # id}

\* line 124: a surface is already attached and is released first
initReleasesNever(S) == FALSE
initReleases(S) == S.canvas # Null

\* lines 126-149: the three ways of acquiring canvas and context
acquire(S, config) ==
    IF config.mode = "context" THEN
        LET cv == CanvasOf(config.context)
        IN [S EXCEPT !.ctx = config.context, !.canvas = cv,
                     !.container = IF cv # Null /\ S.parent[cv] # Null
                                   THEN S.parent[cv] ELSE Body,
                     !.ownsCanvas = FALSE]
    ELSE IF config.mode = "canvas" THEN
        [S EXCEPT !.canvas = config.canvas,
                  !.ctx = IF S.has2d[config.canvas] THEN config.canvas ELSE Null,
                  !.container = IF S.parent[config.canvas] # Null
                                THEN S.parent[config.canvas] ELSE Body,
                  !.ownsCanvas = FALSE]
    ELSE
        LET cont == IF config.parent # Null THEN config.parent ELSE Body
            cv == CHOOSE id \in FreeOwn(S) : TRUE
        IN [S EXCEPT !.container = cont, !.canvas = cv,
                     \* document.createElement("canvas"); appendChild
                     !.cdim[cv] = DefaultDim, !.surf[cv] = DefaultSurf,
                     !.has2d[cv] = config.ok, !.parent[cv] = cont,
                     !.ctx = IF config.ok THEN cv ELSE Null,
                     !.ownsCanvas = TRUE]

\* lines 157-164: the resize subscription of the own-canvas mode
subscribe(S, config) ==
    IF config.mode = "own" THEN
        IF hasRO
        THEN LET ro == CHOOSE id \in FreeObs(S) : TRUE
             IN [S EXCEPT !.resizeObserver = ro, !.observers = @ \cup {ro}]
        ELSE [S EXCEPT !.winListener = TRUE]
    ELSE S

init(S, config) ==
    LET S0 == IF initReleases(S) THEN destroy(S) ELSE S
        S1 == acquire(S0, config)
    IN IF S1.ctx = Null \/ S1.canvas = Null THEN Returns(S1, "throw")
       ELSE Returns(subscribe(resize(S1), config), "api")

target(S, newCtx, w, h) ==
    IF newCtx = Null THEN Returns(S, "api")
    ELSE LET cv == CanvasOf(newCtx)
             S1 == [S EXCEPT !.ctx = newCtx,
                        !.width = IF w # 0 THEN w
                                  ELSE IF cv # Null THEN S.cdim[cv].w ELSE S.width,
                        !.height = IF h # 0 THEN h
                                   ELSE IF cv # Null THEN S.cdim[cv].h ELSE S.height]
         IN Returns(syncStyles(S1), "api")

restore(S) ==
    IF S.canvas # Null
    THEN LET S1 == [S EXCEPT !.ctx = IF S.has2d[S.canvas] THEN S.canvas ELSE Null,
                        !.width = S.cdim[S.canvas].w \div dpr,
                        !.height = S.cdim[S.canvas].h \div dpr]
         IN Returns(syncStyles(S1), "api")
    ELSE Returns(S, "api")

-----------------------------------------------------------------------------------------------------------------------------------------------------
(* Drawing: src/ray.js:197-310 *)

\* operations that only issue path or compositing calls
Ops(S, names) ==
    [S EXCEPT !.ops = @ \o [i \in DOMAIN names |-> <<names[i], S.ctx, Null>>]]

mode(S, type) ==
    IF S.ctx # Null THEN Returns(Op(S, "globalCompositeOperation", type), "api")
    ELSE Returns(S, "api")

clipStart(S) ==
    IF S.ctx = Null THEN Returns(S, "api")
    ELSE Returns(Op(ctxSave(S), "beginPath", Null), "api")

clipEnd(S) ==
    IF S.ctx = Null THEN Returns(S, "api") ELSE Returns(Op(S, "clip", Null), "api")

clipReset(S) ==
    IF S.ctx = Null THEN Returns(S, "api")
    ELSE Returns(syncStyles(ctxRestore(S)), "api")

cls(S, color) ==
    IF S.ctx = Null THEN Returns(S, "api")
    ELSE LET oldFill == S.lastFill
             S1 == Write(ctxSave(S), "xf", 1)
             S2 == Op(setFill(S1, color), "fillRect", Null)
             S3 == ctxRestore(S2)
         IN Returns(setFill(S3, oldFill), "api")

rect(S, fill, stroke) ==
    IF S.ctx = Null THEN Returns(S, "api")
    ELSE LET S1 == setFill(S, fill)
             S2 == setStroke(S1, stroke, 1)
             S3 == IF S1.r THEN Op(S2, "fillRect", Null) ELSE S2
             S4 == IF S2.r THEN Op(S3, "strokeRect", Null) ELSE S3
         IN Returns(S4, "api")

circle(S, fill, stroke) ==
    IF S.ctx = Null THEN Returns(S, "api")
    ELSE LET S1 == setFill(S, fill)
             S2 == setStroke(S1, stroke, 1)
         IN IF ~S1.r /\ ~S2.r THEN Returns(S2, "api")
            ELSE LET S3 == Ops(S2, <<"beginPath", "arc">>)
                     S4 == IF S1.r THEN Op(S3, "fill", Null) ELSE S3
                     S5 == IF S2.r THEN Op(S4, "stroke", Null) ELSE S4
                 IN Returns(S5, "api")

\* line 238: the result of setStroke is not consulted
line(S, color, widthValue) ==
    IF S.ctx = Null THEN Returns(S, "api")
    ELSE LET S1 == setStroke(S, color, widthValue)
         IN Returns(Ops(S1, <<"beginPath", "moveTo", "lineTo", "stroke">>), "api")

\* points is modelled by its length; 0 stands for a missing array
shape(S, points, fill, stroke) ==
    IF S.ctx = Null \/ points < 2 THEN Returns(S, "api")
    ELSE LET S1 == setFill(S, fill)
             S2 == setStroke(S1, stroke, 1)
             S3 == Ops(S2, <<"beginPath", "moveTo">>
                           \o [i \in 1..(points - 1) |-> "lineTo"]
                           \o <<"closePath">>)
             S4 == IF S1.r THEN Op(S3, "fill", Null) ELSE S3
             S5 == IF S2.r THEN Op(S4, "stroke", Null) ELSE S4
         IN Returns(S5, "api")

poly(S, sides, fill, stroke) ==
    IF S.ctx = Null THEN Returns(S, "api")
    ELSE LET S1 == setFill(S, fill)
             S2 == setStroke(S1, stroke, 1)
             S3 == Ops(S2, <<"beginPath">> \o [i \in 1..sides |-> "lineTo"]
                           \o <<"closePath">>)
             S4 == IF S1.r THEN Op(S3, "fill", Null) ELSE S3
             S5 == IF S2.r THEN Op(S4, "stroke", Null) ELSE S4
         IN Returns(S5, "api")

\* the number of values start, start + s, ... below limit, in halves:
\* for (l = start; l < limit; l += s)
Count(start2, limit2, s2) ==
    Cardinality({k \in 0..limit2 : start2 + k * s2 < limit2})

\* lines 279-295: the cells the pattern fills, each with its operations
gridCells(type, s, w, h) ==
    IF type = "dots"
    THEN [i \in 1..(3 * Count(s, 2 * (w + s), 2 * s) * Count(s, 2 * (h + s), 2 * s))
            |-> <<"beginPath", "arc", "fill">>[((i - 1) % 3) + 1]]
    ELSE IF type = "stripes"
    THEN [i \in 1..Count(0, 2 * (w + s), 2 * s) |-> "fillRect"]
    ELSE IF type = "checkerboard"
    THEN [i \in 1..(2 * Count(0, 2 * (w + s), 4 * s) * Count(0, 2 * (h + s), 4 * s))
            |-> "fillRect"]
    ELSE <<>>

grid(S, type, spacing, color) ==
    IF S.ctx = Null THEN Returns(S, "api")
    ELSE LET oldFill == S.lastFill
             S1 == setFill(S, color)
             S2 == Ops(S1, gridCells(type, spacing, S.width, S.height))
         IN Returns(setFill(S2, oldFill), "api")

\* lines 304-308: the cells k .. cols * rows - 1 of the organic pattern; cell
\* k is at lx = 6 * (k \div rows), ly = 6 * (k % rows)
RECURSIVE organicCells(_, _, _, _)
organicCells(S, k, rows, g) ==
    IF k >= g.cols * rows THEN S
    ELSE LET lx == 6 * (k \div rows) * Unit
             ly == 6 * (k % rows) * Unit
             S1 == noise(S, Mul(lx, g.complexity) + g.seed,
                         Mul(ly, g.complexity) + g.seed, 0)
             S2 == IF S1.r > g.threshold THEN Op(S1, "fillRect", Null) ELSE S1
         IN IF S2.rk >= 0 THEN organicCells(S2, k + 1, rows, g) ELSE S2

organic(S, seed, complexity, color, threshold) ==
    IF S.ctx = Null THEN Returns(S, "api")
    ELSE LET oldFill == S.lastFill
             S1 == setFill(S, color)
             S2 == organicCells(S1, 0, Count(0, S.height, 6),
                                [cols |-> Count(0, S.width, 6), seed |-> seed,
                                 complexity |-> complexity, threshold |-> threshold])
         IN Returns(setFill(S2, oldFill), "api")

glow(S, level, color) ==
    IF S.ctx = Null THEN Returns(S, "api")
    ELSE LET S1 == [S EXCEPT !.glowState.glowLevel = IF level > 0 THEN level ELSE 0,
                             !.glowState.glowColor = IF color # Null THEN color ELSE @]
         IN Returns(Op(Op(S1, "shadowBlur", S1.glowState.glowLevel),
                       "shadowColor", S1.glowState.glowColor), "api")

-----------------------------------------------------------------------------
(* Brushes: src/ray.js:314-508.  Coordinates, sizes, radii, alphas,        *)
(* pressures and intensities are numbers in thousandths.                   *)

\* the default sizes of the brushes, in pixels
markerSize == 6
brushSize == 10
drySize == 8
wetSize == 15
oilSize == 12
knifeSize == 45
splatterSize == 1

\* Math.sqrt of a number in thousandths, rounded down: Newton's iteration
\* on the integer v * Unit
RECURSIVE Newton(_, _)
Newton(v, g) ==
    LET h == (g + v \div g) \div 2
    IN IF h >= g THEN g ELSE Newton(v, h)
Sqrt(v) == IF v <= 0 THEN 0 ELSE Newton(v * Unit, v * Unit)

\* Math.hypot(dx, dy)
Hypot(dx, dy) == Sqrt((dx * dx + dy * dy) \div Unit)

\* Math.max(1, Math.ceil(Math.hypot(x - px, y - py) / stepSize)): the least
\* count of steps of stepSize that cover the distance
Steps(x, y, px, py, stepSize) ==
    LET d2 == (x - px) * (x - px) + (y - py) * (y - py)
        far == (Abs(x - px) + Abs(y - py)) \div stepSize + 1
    IN Max(1, CHOOSE k \in 0..far :
                  /\ (k * stepSize) * (k * stepSize) >= d2
                  /\ k > 0 => ((k - 1) * stepSize) * ((k - 1) * stepSize) < d2)

\* Math.cos and Math.sin of v full turns, for the values random() yields
\* (v = 0, or v just below 1)
CosTurn(v) == IF v = 0 THEN Unit ELSE Unit - 1
SinTurn(v) == IF v = 0 THEN 0 ELSE 0 - 7

\* Math.cos and Math.sin of Math.atan2(dy, dx) + Math.PI / 2
CosNormal(dx, dy) ==
    IF Hypot(dx, dy) = 0 THEN 0 ELSE ((0 - dy) * Unit) \div Hypot(dx, dy)
SinNormal(dx, dy) ==
    IF Hypot(dx, dy) = 0 THEN Unit ELSE (dx * Unit) \div Hypot(dx, dy)

\* the arguments of a stroke
Stroke(x, y, px, py, pressure, color, size) ==
    [x |-> x, y |-> y, px |-> px, py |-> py, pressure |-> pressure,
     color |-> color, size |-> size]

\* t = i / steps
Fraction(i, steps) == (i * Unit) \div steps

apiStamp(S, x, y, r, alpha, color) ==
    IF S.ctx = Null THEN Returns(S, "undefined")
    ELSE LET S1 == Ops(S, <<"globalAlpha", "beginPath", "arc">>)
             S2 == setFill(S1, color)
             S3 == [S2 EXCEPT !.stamped =
                        Append(@, [x |-> x, y |-> y, r |-> r, alpha |-> alpha])]
         IN Returns(Ops(S3, <<"fill", "globalAlpha">>), "undefined")

\* --- marker, lines 325-336
markerRadius(size, pressure, t) ==
    LET press == clamp(pressure, 0, Unit)
        baseR == size + Mul(press, Mul(size, 800))
    IN Mul(baseR, Unit - Mul(t, 100))
markerAlpha(pressure) == 400

RECURSIVE markerSteps(_, _, _, _)
markerSteps(S, i, steps, g) ==
    IF i > steps THEN S
    ELSE LET t == Fraction(i, steps)
             S1 == apiStamp(S, lerp(g.px, g.x, t), lerp(g.py, g.y, t),
                            markerRadius(g.size, g.pressure, t),
                            markerAlpha(g.pressure), g.color)
         IN IF S1.rk >= 0 THEN markerSteps(S1, i + 1, steps, g) ELSE S1

marker(S, x, y, px, py, pressure, color, size) ==
    IF S.ctx = Null THEN Returns(S, "api")
    ELSE Returns(markerSteps(S, 0, Steps(x, y, px, py, 2 * Unit),
                             Stroke(x, y, px, py, pressure, color, size)), "api")

\* --- brush, lines 338-351
brushRadius(size, pressure, n) ==
    LET press == clamp(pressure, 0, Unit)
        baseR == size + Mul(press, size)
    IN Mul(baseR, 800 + Mul(n, 400))
brushAlpha(pressure) == 100 + Mul(clamp(pressure, 0, Unit), 100)

RECURSIVE brushSteps(_, _, _, _)
brushSteps(S, i, steps, g) ==
    IF i > steps THEN S
    ELSE LET t == Fraction(i, steps)
             lx == lerp(g.px, g.x, t)
             ly == lerp(g.py, g.y, t)
             S1 == noise(S, Mul(lx, 100), Mul(ly, 100), t)
             S2 == apiStamp(S1, lx, ly, brushRadius(g.size, g.pressure, S1.r),
                            brushAlpha(g.pressure), g.color)
         IN IF S2.rk >= 0 THEN brushSteps(S2, i + 1, steps, g) ELSE S2

brush(S, x, y, px, py, pressure, color, size) ==
    IF S.ctx = Null THEN Returns(S, "api")
    ELSE Returns(brushSteps(S, 0, Steps(x, y, px, py, 1500),
                            Stroke(x, y, px, py, pressure, color, size)), "api")

\* --- dry, lines 353-370
drySpread(size, pressure) ==
    LET press == clamp(pressure, 100, Unit)
    IN size + Mul(press, size)
dryDotCount(pressure) == Floor(3 * Unit + clamp(pressure, 100, Unit) * 5)

\* lines 363-367: dots j .. dots - 1 around (lx, ly)
RECURSIVE dryDots(_, _, _, _, _, _)
dryDots(S, j, dots, lx, ly, g) ==
    IF j >= dots THEN S
    ELSE LET spread == drySpread(g.size, g.pressure)
             sx == lx + Mul(random(S) - 500, spread)
             S1 == drawn(S)
             sy == ly + Mul(random(S1) - 500, spread)
             S2 == noise(drawn(S1), Mul(sx, 200), Mul(sy, 200), 0)
             r == Unit + random(S2)
             S3 == drawn(S2)
             alpha == 100 + Mul(random(S3), 200)
             S4 == IF S2.r > 0
                   THEN apiStamp(drawn(S3), sx, sy, r, alpha, g.color)
                   ELSE S2
         IN IF S4.rk >= 0 THEN dryDots(S4, j + 1, dots, lx, ly, g) ELSE S4

RECURSIVE drySteps(_, _, _, _)
drySteps(S, i, steps, g) ==
    IF i > steps THEN S
    ELSE LET t == Fraction(i, steps)
             S1 == dryDots(S, 0, dryDotCount(g.pressure),
                           lerp(g.px, g.x, t), lerp(g.py, g.y, t), g)
         IN IF S1.rk >= 0 THEN drySteps(S1, i + 1, steps, g) ELSE S1

dry(S, x, y, px, py, pressure, color, size) ==
    IF S.ctx = Null THEN Returns(S, "api")
    ELSE Returns(drySteps(S, 0, Steps(x, y, px, py, 2 * Unit),
                          Stroke(x, y, px, py, pressure, color, size)), "api")

\* --- wet, lines 372-410
wetCoreRadius(size, pressure) ==
    LET press == clamp(pressure, 0, Unit)
        baseR == size + Mul(press, size)
    IN Mul(baseR, 400)
wetCoreAlpha(pressure) == 100 + Mul(clamp(pressure, 0, Unit), 100)
wetWashRadius(size, pressure, n) ==
    LET press == clamp(pressure, 0, Unit)
        baseR == size + Mul(press, size)
    IN Mul(baseR, 1200 + Mul(n, 500))
wetWashAlpha(pressure) == 30 + Mul(clamp(pressure, 0, Unit), 30)
wetBloomRadius(rWash, rand) == Mul(rWash, 400 + Mul(rand, 600))
wetBloomAlpha(pressure) == 50

\* lines 396-404: the bloom of one step
wetBloom(S, lx, ly, rWash, g) ==
    LET ang == random(S)
        S1 == drawn(S)
        d == Mul(random(S1), rWash)
        S2 == drawn(S1)
        br == wetBloomRadius(rWash, random(S2))
        S3 == Op(drawn(S2), "shadowBlur", Null)
    IN apiStamp(S3, lx + Mul(CosTurn(ang), d), ly + Mul(SinTurn(ang), d),
                br, wetBloomAlpha(g.pressure), g.color)

\* lines 380-407: core stamp, wash stamp, now and then a bloom stamp
RECURSIVE wetSteps(_, _, _, _)
wetSteps(S, i, steps, g) ==
    IF i > steps THEN S
    ELSE LET t == Fraction(i, steps)
             lx == lerp(g.px, g.x, t)
             ly == lerp(g.py, g.y, t)
             S1 == apiStamp(S, lx, ly, wetCoreRadius(g.size, g.pressure),
                            wetCoreAlpha(g.pressure), g.color)
             S2 == noise(S1, Mul(lx, 50), Mul(ly, 50), t)
             rWash == wetWashRadius(g.size, g.pressure, S2.r)
             S3 == Ops(S2, <<"shadowBlur", "shadowColor">>)
             S4 == apiStamp(S3, lx, ly, rWash, wetWashAlpha(g.pressure), g.color)
             S5 == IF random(S4) > 900
                   THEN wetBloom(drawn(S4), lx, ly, rWash, g)
                   ELSE drawn(S4)
             S6 == Op(S5, "shadowBlur", Null)
         IN IF S6.rk >= 0 THEN wetSteps(S6, i + 1, steps, g) ELSE S6

wet(S, x, y, px, py, pressure, color, size) ==
    IF S.ctx = Null THEN Returns(S, "api")
    ELSE LET S1 == ctxSave(S)
             S2 == wetSteps(S1, 0, Steps(x, y, px, py, 4 * Unit),
                            Stroke(x, y, px, py, pressure, color, size))
         IN Returns(ctxRestore(S2), "api")

\* --- oil, lines 412-448
oilBaseRadius(size, pressure) ==
    LET press == clamp(pressure, 200, Unit)
    IN size + Mul(press, size)
oilBristleRadius(size, pressure, rand) ==
    Mul(Mul(oilBaseRadius(size, pressure), 400), 800 + Mul(rand, 400))
oilBristleAlpha(rand) == 50 + Mul(rand, 150)
oilGrooveRadius(size, pressure) == Mul(oilBaseRadius(size, pressure), 150)
oilHighlightRadius(size, pressure) == Mul(oilBaseRadius(size, pressure), 300)

\* lines 427-438: the bristle clusters j .. 4 of one step
RECURSIVE oilClusters(_, _, _, _, _)
oilClusters(S, j, lx, ly, g) ==
    IF j >= 5 THEN S
    ELSE LET r == oilBaseRadius(g.size, g.pressure)
             off == Mul(Mul(Fraction(j, 5) - 500, r), 1200)
             bx == lx + Mul(CosNormal(g.x - g.px, g.y - g.py), off)
             by == ly + Mul(SinNormal(g.x - g.px, g.y - g.py), off)
             dens == oilBristleAlpha(random(S))
             S1 == drawn(S)
             S2 == apiStamp(drawn(S1), bx, by,
                            oilBristleRadius(g.size, g.pressure, random(S1)),
                            dens, g.color)
             S3 == IF random(S2) > 800
                   THEN apiStamp(drawn(S2), bx, by,
                                 oilGrooveRadius(g.size, g.pressure), 100, Black)
                   ELSE drawn(S2)
         IN IF S3.rk >= 0 THEN oilClusters(S3, j + 1, lx, ly, g) ELSE S3

\* lines 420-446: steps i .. steps
RECURSIVE oilSteps(_, _, _, _)
oilSteps(S, i, steps, g) ==
    IF i > steps THEN S
    ELSE LET t == Fraction(i, steps)
             lx == lerp(g.px, g.x, t)
             ly == lerp(g.py, g.y, t)
             r == oilBaseRadius(g.size, g.pressure)
             S1 == oilClusters(S, 0, lx, ly, g)
             S2 == IF i % 3 = 0
                   THEN apiStamp(S1,
                            lx + Mul(CosNormal(g.x - g.px, g.y - g.py), Mul(r, 400)),
                            ly + Mul(SinNormal(g.x - g.px, g.y - g.py), Mul(r, 400)),
                            oilHighlightRadius(g.size, g.pressure), 80, White)
                   ELSE S1
         IN IF S2.rk >= 0 THEN oilSteps(S2, i + 1, steps, g) ELSE S2

oil(S, x, y, px, py, pressure, color, size) ==
    IF S.ctx = Null THEN Returns(S, "api")
    ELSE Returns(oilSteps(S, 0, Steps(x, y, px, py, 400),
                          Stroke(x, y, px, py, pressure, color, size)), "api")

\* --- knife, lines 453-493
knifeWidth(size, pressure) ==
    Mul(size, 600 + Mul(clamp(pressure, 200, Unit), 2200))
knifeHeight(size, pressure) ==
    Mul(size, 200) + Mul(clamp(pressure, 200, Unit), Mul(size, 150))

\* lines 465-489: the rectangles of steps i .. steps
RECURSIVE knifeSteps(_, _, _, _)
knifeSteps(S, i, steps, g) ==
    IF i > steps THEN S
    ELSE LET kw == knifeWidth(g.size, g.pressure)
             kh == knifeHeight(g.size, g.pressure)
             S1 == Ops(Write(S, "xf", dpr), <<"rotate", "globalAlpha">>)
             S2 == Op(setFill(S1, g.color), "fillRect", [w |-> kh, h |-> kw])
             S3 == Op(setFill(Op(S2, "globalAlpha", Null), White), "fillRect",
                      [w |-> Mul(kh, 300), h |-> kw])
             S4 == Op(setFill(S3, Black), "fillRect", [w |-> Mul(kh, 300), h |-> kw])
             S5 == IF random(S4) > 700
                   THEN Op(Op(setFill(drawn(S4), g.color), "globalAlpha", Null),
                           "fillRect", [w |-> Mul(kh, 200), h |-> kw \div 2])
                   ELSE drawn(S4)
         IN IF S5.rk >= 0 THEN knifeSteps(S5, i + 1, steps, g) ELSE S5

\* line 491: the cache is read back after ctx.restore()
knifeSync(S) == syncStyles(S)

knife(S, x, y, px, py, pressure, color, size) ==
    IF S.ctx = Null THEN Returns(S, "api")
    ELSE LET S1 == ctxSave(S)
             S2 == knifeSteps(S1, 0, Steps(x, y, px, py, 1500),
                              Stroke(x, y, px, py, pressure, color, size))
         IN Returns(knifeSync(ctxRestore(S2)), "api")

\* --- splatter, lines 495-508
splatterCountDoubled(intensity) == Floor(intensity * 30)
splatterCount(intensity) == Floor(intensity * 15)
splatterRadius(intensity, size, rand) ==
    Mul(Mul(800 + Mul(rand, 2500), Mul(intensity, 400) + 600), size)
splatterAlpha(rand) == 300 + Mul(rand, 500)

\* lines 499-506: drops i .. count - 1
RECURSIVE splatterDrops(_, _, _, _)
splatterDrops(S, i, count, g) ==
    IF i >= count THEN S
    ELSE LET spread == Mul(g.pressure * 60, g.size)
             ang == random(S)
             S1 == drawn(S)
             d == Mul(Mul(random(S1), Sqrt(random(S1))), spread)
             S2 == drawn(S1)
             r == splatterRadius(g.pressure, g.size, random(S2))
             S3 == drawn(S2)
             S4 == apiStamp(drawn(S3), g.x + Mul(CosTurn(ang), d),
                            g.y + Mul(SinTurn(ang), d), r,
                            splatterAlpha(random(S3)), g.color)
         IN IF S4.rk >= 0 THEN splatterDrops(S4, i + 1, count, g) ELSE S4

splatter(S, x, y, intensity, color, size) ==
    IF S.ctx = Null THEN Returns(S, "api")
    ELSE Returns(splatterDrops(S, 0, splatterCount(intensity),
                               Stroke(x, y, x, y, intensity, color, size)), "api")

-----------------------------------------------------------------------------
(* Animation driver: src/ray.js:519-532 *)

\* the callbacks a caller may pass: declared parameter count, and whether
\* the callback's body calls ray.stop()
Callbacks == {[id |-> "f" \o ToString(a), isFn |-> TRUE, arity |-> a, stops |-> FALSE] : a \in 0..3}
             \cup {[id |-> "s1", isFn |-> TRUE, arity |-> 1, stops |-> TRUE]}
NotAFunction == [id |-> "none", isFn |-> FALSE, arity |-> 0, stops |-> FALSE]

halt(Q) == [i \in DOMAIN Q |-> [Q[i] EXCEPT !.halted = TRUE]]

\* stop(); every frame closure pending at this moment is marked
stop(S) ==
    [S EXCEPT !.running = FALSE, !.ret = "api",
              !.rafQueue = halt(@), !.firing = halt(@)]

\* lines 525-526: how the callback is called
frameCallSwapped(callback, time, delta) ==
    IF callback.arity >= 2
    THEN [form |-> "positional", args |-> <<time, delta>>]
    ELSE [form |-> "record", args |-> <<[t |-> delta, dt |-> time]>>]
frameCall(callback, time, delta) ==
    IF callback.arity >= 2
    THEN [form |-> "positional", args |-> <<time, delta>>]
    ELSE [form |-> "record", args |-> <<[t |-> time, dt |-> delta]>>]

\* lines 522-528: one firing of a frame closure f, the head of S.firing
frame(S, time) ==
    LET f == Head(S.firing)
        S0 == [S EXCEPT !.firing = Tail(@)]
    IN IF ~S0.running THEN S0
       ELSE LET delta == time - S0.lastTime
                S1 == [S0 EXCEPT !.lastTime = time,
                           !.calls = Append(@, [cb |-> f.cb, halted |-> f.halted,
                                                call |-> frameCall(f.cb, time, delta)])]
                \* the callback's body runs
                S2 == IF f.cb.stops THEN stop(S1) ELSE S1
                f2 == [f EXCEPT !.halted = @ \/ f.cb.stops]
            IN [S2 EXCEPT !.rafQueue = Append(@, f2)]

loop(S, callback) ==
    IF S.ctx = Null \/ ~callback.isFn THEN Returns(S, "api")
    ELSE [S EXCEPT !.running = TRUE, !.lastTime = now,
                   !.rafQueue = Append(@, [cb |-> callback, halted |-> FALSE]),
                   !.ret = "api"]

\* a display refresh: the queued frame closures run in order, with one
\* timestamp; closures queued meanwhile wait for the next refresh
RECURSIVE runFrames(_, _)
runFrames(S, time) ==
    IF S.firing = <<>> THEN S ELSE runFrames(frame(S, time), time)

refresh(S, time) ==
    runFrames([S EXCEPT !.firing = S.rafQueue, !.rafQueue = <<>>], time)

-----------------------------------------------------------------------------
(* Initial state: the module as loaded, src/ray.js:10-26 *)

Init ==
    /\ canvas = Null /\ ctx = Null /\ container = Null
    /\ width = 0 /\ height = 0
    /\ lastFill = Null /\ lastStroke = Null /\ lastLineWidth = NoWidth
    /\ running = FALSE /\ lastTime = 0
    /\ resizeObserver = Null /\ ownsCanvas = FALSE
    /\ glowState = [glowLevel |-> 0, glowColor |-> White]
    /\ surf = [c \in Ctxs |-> DefaultSurf]
    /\ parent = [c \in Canvases |-> IF c \in {UserCanvas, GlCanvas} THEN Div ELSE Null]
    /\ cdim = [c \in Canvases |-> IF c = OffCanvas THEN OffDim ELSE DefaultDim]
    /\ has2d = [c \in Canvases |-> c \in {UserCanvas, OffCanvas}]
    /\ rects = [p \in Containers |-> [w |-> 2, h |-> 1]]
    /\ observers = {} /\ winListener = FALSE
    /\ hasRO \in BOOLEAN
    /\ dpr \in {1, 2}
    /\ now = 0 /\ frameTime = 0 /\ rafQueue = <<>>
    /\ call = [op |-> "load", arg |-> Null]
    /\ ret = "api" /\ ops = <<>> /\ calls = <<>> /\ stamped = <<>>
    /\ noise_p = [i \in 1..(2 * TableSize) |-> 0] /\ noise_initialized = FALSE
    /\ strokes = 0

Host == UNCHANGED <<hasRO, dpr, now, frameTime, strokes>>

-----------------------------------------------------------------------------
(* Actions: one per operation *)

Configs ==
    {[mode |-> "context", context |-> c, canvas |-> Null, parent |-> Null, ok |-> TRUE]
        : c \in {UserCanvas, BareCtx}}
    \cup {[mode |-> "canvas", context |-> Null, canvas |-> c, parent |-> Null, ok |-> TRUE]
        : c \in {UserCanvas, GlCanvas}}
    \cup {[mode |-> "own", context |-> Null, canvas |-> Null, parent |-> p, ok |-> k]
        : p \in {Null, Div}, k \in BOOLEAN}

CallInit ==
    \E config \in Configs :
        /\ config.mode = "own" =>
              /\ FreeOwn(IF initReleases(Cur) THEN destroy(Cur) ELSE Cur) # {}
              /\ hasRO => FreeObs(IF initReleases(Cur) THEN destroy(Cur) ELSE Cur) # {}
        /\ Set(init(Cur, config))
        /\ call' = [op |-> "init", arg |-> [mode |-> config.mode, was |-> canvas]]
        /\ Host

CallDestroy ==
    /\ Set(destroy(Cur))
    /\ call' = [op |-> "destroy", arg |-> canvas]
    /\ Host

CallTarget ==
    \E newCtx \in {Null, OffCanvas, BareCtx}, w \in {0, 5} :
        /\ Set(target(Cur, newCtx, w, w))
        /\ call' = [op |-> "target", arg |-> Null]
        /\ Host

CallRestore ==
    /\ Set(restore(Cur))
    /\ call' = [op |-> "restore", arg |-> Null]
    /\ Host

CallLoop ==
    \E callback \in Callbacks \cup {NotAFunction} :
        /\ Len(rafQueue) < MaxQueue
        /\ Set(loop(Cur, callback))
        /\ call' = [op |-> "loop", arg |-> Null]
        /\ Host

CallStop ==
    /\ Set(stop(Cur))
    /\ call' = [op |-> "stop", arg |-> Null]
    /\ Host

\* the clock advances, by a frame or by a long suspension
Tick ==
    \E d \in {1, SuspendGap} :
        /\ now + d <= MaxTime
        /\ now' = now + d
        /\ call' = [op |-> "tick", arg |-> Null]
        /\ ret' = "api" /\ ops' = <<>> /\ calls' = <<>> /\ stamped' = <<>>
        /\ UNCHANGED <<noise_p, noise_initialized, strokes>>
        /\ UNCHANGED <<canvas, ctx, container, width, height, lastFill,
                       lastStroke, lastLineWidth, running, lastTime,
                       resizeObserver, ownsCanvas, glowState, surf, parent,
                       cdim, has2d, rects, observers, winListener, hasRO, dpr,
                       frameTime, rafQueue>>

\* the display refreshes: requestAnimationFrame's callbacks run with the
\* frame's timestamp, which is the clock's value or slightly before it
Refresh ==
    \E time \in {now - 1, now} :
        /\ rafQueue # <<>>
        /\ time >= frameTime
        /\ Set(refresh(Cur, time))
        /\ frameTime' = time
        /\ call' = [op |-> "refresh", arg |-> Null]
        /\ UNCHANGED <<hasRO, dpr, now, strokes>>

\* the size of a container changes; an active subscription runs resize()
ResizeEvent ==
    \E p \in Containers, size \in Sizes :
        /\ IF observers # {} \/ winListener
           THEN Set(resize([Cur EXCEPT !.rects[p] = size]))
           ELSE Set([Cur EXCEPT !.rects[p] = size])
        /\ call' = [op |-> "resizeEvent", arg |-> Null]
        /\ Host

-----------------------------------------------------------------------------
(* Actions of the drawing operations *)

\* a colour argument, or none
Fills == Colors \cup {Null}
Coords == {0, MaxCoord}
Pressures == {0, 10}
Tapes == [1..RndLen -> BOOLEAN]

CallMode ==
    /\ Set(mode(Cur, "multiply"))
    /\ call' = [op |-> "mode", arg |-> Null]
    /\ Host

CallClip ==
    \E which \in {"clipStart", "clipEnd", "clipReset"} :
        /\ (which = "clipStart" /\ ctx # Null) => Len(surf[ctx].stack) < MaxSave
        /\ Set(CASE which = "clipStart" -> clipStart(Cur)
                  [] which = "clipEnd" -> clipEnd(Cur)
                  [] OTHER -> clipReset(Cur))
        /\ call' = [op |-> which, arg |-> Null]
        /\ Host

CallCls ==
    \E color \in Colors :
        /\ Set(cls(Cur, color))
        /\ call' = [op |-> "cls", arg |-> [fill |-> color, stroke |-> Null, width |-> 1]]
        /\ Host

CallRect ==
    \E fill \in Fills, stroke \in Fills :
        /\ Set(rect(Cur, fill, stroke))
        /\ call' = [op |-> "rect", arg |-> [fill |-> fill, stroke |-> stroke, width |-> 1]]
        /\ Host

CallCircle ==
    \E fill \in Fills, stroke \in Fills :
        /\ Set(circle(Cur, fill, stroke))
        /\ call' = [op |-> "circle", arg |-> [fill |-> fill, stroke |-> stroke, width |-> 1]]
        /\ Host

CallLine ==
    \E color \in Fills, widthValue \in Widths \cup {NoWidth} :
        /\ Set(line(Cur, color, widthValue))
        /\ call' = [op |-> "line", arg |-> [fill |-> Null, stroke |-> color, width |-> widthValue]]
        /\ Host

CallShape ==
    \E points \in {1, 3}, fill \in Fills, stroke \in Fills :
        /\ Set(shape(Cur, points, fill, stroke))
        /\ call' = [op |-> IF points < 2 THEN "shape:short" ELSE "shape",
                    arg |-> [fill |-> fill, stroke |-> stroke, width |-> 1]]
        /\ Host

CallPoly ==
    \E sides \in {3}, fill \in Fills, stroke \in Fills :
        /\ Set(poly(Cur, sides, fill, stroke))
        /\ call' = [op |-> "poly", arg |-> [fill |-> fill, stroke |-> stroke, width |-> 1]]
        /\ Host

CallGrid ==
    \E type \in {"dots", "stripes", "checkerboard", "none"}, color \in Colors :
        /\ Set(grid(Cur, type, 2, color))
        /\ call' = [op |-> "grid", arg |-> [fill |-> color, stroke |-> Null, width |-> 1]]
        /\ Host

\* organic(seed, complexity, color, threshold): the defaults, and a call
\* whose threshold lies below every value of noise
CallOrganic ==
    \E color \in Colors, threshold \in {100, 0 - 2 * Unit}, tape \in {<<TRUE, FALSE>>} :
        /\ Set(organic([Cur EXCEPT !.tape = tape], 0, 10, color, threshold))
        /\ call' = [op |-> "organic", arg |-> [fill |-> color, stroke |-> Null, width |-> 1]]
        /\ Host

CallGlow ==
    \E level \in {0 - 1, 2}, color \in {Null, Black} :
        /\ Set(glow(Cur, level, color))
        /\ call' = [op |-> "glow", arg |-> Null]
        /\ Host

\* ray.noise(x, y, z); what it returned is kept with the call
NoiseInputs ==
    {<<0, 0, 0>>, <<500, 0, 0>>, <<1500, 2250, 500>>, <<0 - 250, 0, 3 * Unit>>}

CallNoise ==
    \E at \in NoiseInputs, tape \in Tapes :
        \E S \in {noise([Cur EXCEPT !.tape = tape], at[1], at[2], at[3])} :
            /\ Set(Returns(S, "value"))
            /\ call' = [op |-> "noise", arg |-> at, out |-> S.r]
            /\ Host

\* a count of pixels, and a count of tenths, as numbers in thousandths
Px(n) == n * Unit
Tenths(n) == n * (Unit \div 10)

CallStamp ==
    \E color \in Fills :
        /\ Set(apiStamp(Cur, 0, 0, Unit, Unit, color))
        /\ call' = [op |-> "stamp", arg |-> [fill |-> color, stroke |-> Null, width |-> 1]]
        /\ Host

Brushes == {"marker", "brush", "dry", "wet", "oil", "knife"}

\* the size a brush takes when the caller passes none
DefaultSize(which) ==
    Px(CASE which = "marker" -> markerSize
         [] which = "brush" -> brushSize
         [] which = "dry" -> drySize
         [] which = "wet" -> wetSize
         [] which = "oil" -> oilSize
         [] which = "knife" -> knifeSize
         [] OTHER -> splatterSize)

\* ray[which](x, y, px, py, pressure, color, size)
applyBrush(S, which, g) ==
    CASE which = "marker" -> marker(S, g.x, g.y, g.px, g.py, g.pressure, g.color, g.size)
      [] which = "brush" -> brush(S, g.x, g.y, g.px, g.py, g.pressure, g.color, g.size)
      [] which = "dry" -> dry(S, g.x, g.y, g.px, g.py, g.pressure, g.color, g.size)
      [] which = "wet" -> wet(S, g.x, g.y, g.px, g.py, g.pressure, g.color, g.size)
      [] which = "oil" -> oil(S, g.x, g.y, g.px, g.py, g.pressure, g.color, g.size)
      [] OTHER -> knife(S, g.x, g.y, g.px, g.py, g.pressure, g.color, g.size)

\* a brush call with its arguments drawn from the given sets: segments are
\* <<x, y, px, py>> in pixels, pressures are in tenths
Stroking(whichs, segments, pressures, colors, tapes) ==
    \E which \in whichs, seg \in segments, pressure \in pressures,
       color \in colors, tape \in tapes :
        LET g == Stroke(Px(seg[1]), Px(seg[2]), Px(seg[3]), Px(seg[4]),
                        Tenths(pressure), color, DefaultSize(which))
        IN /\ strokes < MaxStrokes
           /\ Set(applyBrush([Cur EXCEPT !.tape = tape], which, g))
           /\ call' = [op |-> which,
                       arg |-> [fill |-> color, stroke |-> Null, width |-> 1,
                                g |-> g, tape |-> tape]]
           /\ strokes' = strokes + 1
           /\ UNCHANGED <<hasRO, dpr, now, frameTime>>

\* a splatter call with its arguments drawn from the given sets
Spraying(intensities, colors, tapes) ==
    \E intensity \in intensities, color \in colors, tape \in tapes :
        LET g == Stroke(0, 0, 0, 0, Tenths(intensity), color, DefaultSize("splatter"))
        IN /\ strokes < MaxStrokes
           /\ Set(splatter([Cur EXCEPT !.tape = tape], g.x, g.y, g.pressure,
                           g.color, g.size))
           /\ call' = [op |-> "splatter",
                       arg |-> [fill |-> color, stroke |-> Null, width |-> 1,
                                g |-> g, tape |-> tape]]
           /\ strokes' = strokes + 1
           /\ UNCHANGED <<hasRO, dpr, now, frameTime>>

CallBrush ==
    Stroking(Brushes, {<<x, 0, px, 0>> : x \in Coords, px \in Coords},
             Pressures, Colors, Tapes)

CallSplatter == Spraying({0, 2}, Colors, {<<FALSE, TRUE>>})

\* the operations restricted to one input each, for the specifications
\* that are about something else
OwnConfig == [mode |-> "own", context |-> Null, canvas |-> Null, parent |-> Null, ok |-> TRUE]

CallInitOwn ==
    /\ FreeOwn(IF initReleases(Cur) THEN destroy(Cur) ELSE Cur) # {}
    /\ hasRO => FreeObs(IF initReleases(Cur) THEN destroy(Cur) ELSE Cur) # {}
    /\ Set(init(Cur, OwnConfig))
    /\ call' = [op |-> "init", arg |-> [mode |-> "own", was |-> canvas]]
    /\ Host

CallLoopOne ==
    \E callback \in {c \in Callbacks : c.id = "f2"} :
        /\ Len(rafQueue) < MaxQueue
        /\ Set(loop(Cur, callback))
        /\ call' = [op |-> "loop", arg |-> Null]
        /\ Host

-----------------------------------------------------------------------------
(* Specifications *)

\* lifecycle: every way of attaching and releasing a surface
NextLife ==
    \/ CallInit \/ CallDestroy \/ CallTarget \/ CallRestore \/ ResizeEvent

Spec == Init /\ [][NextLife]_vars

\* animation: one own canvas, every callback, the clock
NextLoop ==
    \/ CallInitOwn \/ CallDestroy \/ CallLoop \/ CallStop \/ Tick \/ Refresh

InitLoop == Init /\ hasRO /\ dpr = 1

SpecLoop == InitLoop /\ [][NextLoop]_vars

\* teardown: every way of attaching a surface, a running loop, destroy
NextTeardown ==
    \/ CallInit \/ CallDestroy \/ CallLoopOne \/ CallStop \/ Refresh

SpecTeardown == Init /\ [][NextTeardown]_vars

\* drawing: one own canvas, the shapes and the patterns that need no noise
NextDraw ==
    \/ CallInitOwn \/ CallDestroy
    \/ CallMode \/ CallClip \/ CallCls \/ CallRect \/ CallCircle \/ CallLine
    \/ CallShape \/ CallPoly \/ CallGrid \/ CallGlow
    \/ CallStamp

SpecDraw == InitLoop /\ [][NextDraw]_vars

\* strokes: one own canvas, every brush with pressures below, inside and
\* above [0, 1] on segments of length 0, along an axis and oblique, and
\* splatter with intensities up to 1
StrokeSegments == {<<0, 0, 0, 0>>, <<MaxCoord, 0, 0, 0>>, <<0, 1, MaxCoord, 0>>}
StrokePressures == {0 - 5, 0, 5, 10, 15}
Intensities == {0 - 5, 0, 1, 5, 10}

CallStroke == Stroking(Brushes, StrokeSegments, StrokePressures, {inkColor}, Tapes)

CallSpray == Spraying(Intensities, {inkColor}, Tapes)

NextStroke ==
    \/ CallInitOwn \/ CallDestroy \/ CallStroke \/ CallSpray

SpecStroke == InitLoop /\ [][NextStroke]_vars

\* noise: its direct calls and the calls that use it, between init,
\* destroy and resize
CallNoisy ==
    Stroking({"brush", "dry", "wet"}, {<<MaxCoord, 0, 0, 0>>}, {5}, {inkColor}, Tapes)

NextNoise ==
    \/ CallInitOwn \/ CallDestroy \/ ResizeEvent
    \/ CallNoise \/ CallOrganic \/ CallNoisy

SpecNoise == InitLoop /\ [][NextNoise]_vars

\* brushes: one own canvas, the clip stack, every brush
NextBrush ==
    \/ CallInitOwn \/ CallDestroy \/ CallClip \/ CallStamp
    \/ CallBrush \/ CallSplatter

SpecBrush == InitLoop /\ [][NextBrush]_vars

-----------------------------------------------------------------------------
(* Claims *)

\* what a callback invocation received, whichever way it was called
Received(c) ==
    IF c.call.form = "positional"
    THEN <<c.call.args[1], c.call.args[2]>>
    ELSE <<c.call.args[1].t, c.call.args[1].dt>>

\* C1: once stop() has been called, no frame closure that was pending at
\* the call invokes its callback again, whatever follows the stop()
C1_NoCallbackAfterStop ==
    \A i \in DOMAIN calls : ~calls[i].halted

\* C4: at most one resize subscription is active and at most one canvas
\* created by init is mounted in the document
C4_OneSurface ==
    /\ Cardinality(observers) + (IF winListener THEN 1 ELSE 0) <= 1
    /\ Cardinality({c \in OwnIds : parent[c] # Null}) <= 1

\* an init in own-canvas mode ran while an own canvas was attached, and its
\* subscription is active
C4_Witness ==
    /\ call.op = "init" /\ ret = "api"
    /\ call.arg.mode = "own" /\ call.arg.was \in OwnIds
    /\ (observers # {} \/ winListener)

\* C5: every delta passed to the callback is strictly positive and below
\* the gap of a suspension
C5_DeltaSanitised ==
    \A i \in DOMAIN calls :
        Received(calls[i])[2] > 0 /\ Received(calls[i])[2] < SuspendGap

\* C6: at most one frame closure is pending, and a display refresh invokes
\* the user callback at most once
C6_OneChain ==
    Len(rafQueue) <= 1 /\ Len(calls) <= 1

\* C7: on every display refresh every invoked callback receives the frame's
\* timestamp and the delta since the previous invocation, as (t, dt) when it
\* declares two or more parameters and as {t, dt} otherwise
C7_EquivalentArgs ==
    [][call'.op = "refresh" =>
        \A i \in DOMAIN calls' :
            /\ calls'[i].call.form =
                    (IF calls'[i].cb.arity >= 2 THEN "positional" ELSE "record")
            /\ Received(calls'[i]) =
                    <<frameTime', IF i = 1 THEN frameTime' - lastTime ELSE 0>>]_vars

\* one refresh invoked a two-parameter callback and a one-parameter callback
\* with a timestamp that differs from the delta
C7_Witness ==
    /\ call.op = "refresh" /\ Len(calls) = 2
    /\ calls[1].call.form = "positional" /\ calls[2].call.form = "record"
    /\ Received(calls[2])[1] # Received(calls[2])[2]

StyledOps ==
    {"init", "stamp", "marker", "brush", "dry", "wet", "oil", "knife",
     "splatter", "clipStart", "clipEnd", "clipReset"}

C2_CacheCoherent ==
    (ctx # Null /\ call.op \in StyledOps) =>
        /\ lastFill = surf[ctx].fillStyle
        /\ lastStroke = surf[ctx].strokeStyle
        /\ lastLineWidth = surf[ctx].lineWidth

\* C3: with no context attached every drawing call issues no operation,
\* changes neither the style cache, the glow state, the running flag, the
\* dimensions nor the frame queue, and returns the facade
GuardedOps ==
    {"cls", "rect", "circle", "line", "shape", "poly", "grid", "organic",
     "stamp", "glow", "mode", "clipStart", "clipEnd", "clipReset"}

C3_SilentNoOp ==
    [][(ctx = Null /\ call'.op \in GuardedOps) =>
            /\ ret' = "api" /\ ops' = <<>>
            /\ UNCHANGED <<lastFill, lastStroke, lastLineWidth, glowState,
                           running, width, height, rafQueue>>]_vars

\* C9: on an attached context every shape call issues a fill operation
\* exactly when its fill colour is given and a stroke operation exactly
\* when its stroke colour is given
Issued(log, names) == \E i \in DOMAIN log : log[i][1] \in names

C9_NullMeansNoDraw ==
    (ctx # Null /\ call.op \in {"rect", "circle", "line", "shape", "poly"}) =>
        /\ Issued(ops, {"fill", "fillRect"}) <=> call.arg.fill # Null
        /\ Issued(ops, {"stroke", "strokeRect"}) <=> call.arg.stroke # Null

\* the values written to one style attribute, in the order of a log
Written(log, attr) ==
    LET W == SelectSeq(log, LAMBDA e : e[1] = attr)
    IN [i \in DOMAIN W |-> W[i][3]]

StyleAttrs == {"fillStyle", "strokeStyle", "lineWidth"}

\* every style write of a log differs from the value cached at that point;
\* a resynchronisation replaces the cached values by the ones it read
RECURSIVE WritesDiffer(_, _)
WritesDiffer(log, cache) ==
    IF log = <<>> THEN TRUE
    ELSE LET e == Head(log)
         IN IF e[1] \in StyleAttrs
            THEN /\ e[3] # cache[e[1]]
                 /\ WritesDiffer(Tail(log), [cache EXCEPT ![e[1]] = e[3]])
            ELSE IF e[1] = "sync" THEN WritesDiffer(Tail(log), e[3])
            ELSE WritesDiffer(Tail(log), cache)

\* C10: on an attached context a drawing call writes a style attribute only
\* where the value differs from the cached one, and a call that makes one
\* fill and one stroke request writes fillStyle, strokeStyle and lineWidth
\* exactly when the requested value differs from the cached one
C10_NoRedundantWrite ==
    [][(ctx # Null /\ call'.op \in GuardedOps) =>
            /\ WritesDiffer(ops', [fillStyle |-> lastFill,
                                   strokeStyle |-> lastStroke,
                                   lineWidth |-> lastLineWidth])
            /\ call'.op \in {"rect", "circle", "line", "shape", "poly", "stamp"} =>
                  LET a == call'.arg
                  IN /\ Written(ops', "fillStyle") =
                            (IF a.fill # Null /\ a.fill # lastFill
                             THEN <<a.fill>> ELSE <<>>)
                     /\ Written(ops', "strokeStyle") =
                            (IF a.stroke # Null /\ a.stroke # lastStroke
                             THEN <<a.stroke>> ELSE <<>>)
                     /\ Written(ops', "lineWidth") =
                            (IF a.stroke # Null /\ a.width # NoWidth
                                /\ a.width # lastLineWidth
                             THEN <<a.width>> ELSE <<>>)]_vars

\* a stamp asked for the colour the cache already held, on a surface that
\* holds this colour, and drew without writing fillStyle
C10_Witness ==
    /\ call.op = "stamp" /\ ctx # Null
    /\ call.arg.fill = inkColor /\ lastFill = inkColor
    /\ surf[ctx].fillStyle = inkColor
    /\ Issued(ops, {"fill"}) /\ ~Issued(ops, {"fillStyle"})

\* C11: every stamp a brush or splatter submits has a radius of at least 0.8
\* and an alpha of at least 0.05
C11_StampFloor ==
    \A i \in DOMAIN stamped : stamped[i].r >= 800 /\ stamped[i].alpha >= 50

\* the stamp positions of the latest call, as offsets from the stroke's start
Along(g, st) ==
    (st.x - g.px) * (g.x - g.px) + (st.y - g.py) * (g.y - g.py)
Across(g, st) ==
    (st.x - g.px) * (g.y - g.py) - (st.y - g.py) * (g.x - g.px)
Length2(g) == (g.x - g.px) * (g.x - g.px) + (g.y - g.py) * (g.y - g.py)

\* C12: marker on an attached context emits steps + 1 stamps, where steps is
\* the least count of steps of 2 pixels that cover the segment and at
\* least 1; the first stamp is at (px, py), the last at (x, y), every stamp
\* lies on the segment and none lies before its predecessor
C12_MarkerStamps ==
    (call.op = "marker" /\ ctx # Null) =>
        LET g == call.arg.g
            steps == Len(stamped) - 1
        IN /\ steps >= 1
           /\ (steps * 2 * Unit) * (steps * 2 * Unit) >= Length2(g)
           /\ steps > 1 =>
                 ((steps - 1) * 2 * Unit) * ((steps - 1) * 2 * Unit) < Length2(g)
           /\ stamped[1].x = g.px /\ stamped[1].y = g.py
           /\ stamped[steps + 1].x = g.x /\ stamped[steps + 1].y = g.y
           /\ \A i \in DOMAIN stamped :
                 /\ Across(g, stamped[i]) = 0
                 /\ Along(g, stamped[i]) >= 0
                 /\ Along(g, stamped[i]) <= Length2(g)
                 /\ i > 1 => Along(g, stamped[i - 1]) <= Along(g, stamped[i])

\* marker drew an oblique segment in more than one step
C12_Witness ==
    /\ call.op = "marker" /\ ctx # Null
    /\ call.arg.g.x # call.arg.g.px /\ call.arg.g.y # call.arg.g.py
    /\ Len(stamped) = 3
    /\ stamped[2].x # stamped[1].x /\ stamped[2].x # stamped[3].x

\* the rectangles knife filled, in order
Filled(log) ==
    LET F == SelectSeq(log, LAMBDA e : e[1] = "fillRect")
    IN [i \in DOMAIN F |-> F[i][3]]

\* C13: with the same segment, size and random values, a brush called with
\* a lower pressure submits, stamp by stamp, a radius and an alpha that are
\* not larger (marker, brush, wet, oil), spreads its dots not wider (dry),
\* and fills rectangles that are not wider and not higher (knife)
C13_PressureMonotone ==
    [][(call'.op \in Brushes /\ ctx # Null) =>
          \A v \in StrokePressures :
              Tenths(v) < call'.arg.g.pressure =>
                  LET g == call'.arg.g
                      low == applyBrush([Cur EXCEPT !.tape = call'.arg.tape],
                                        call'.op, [g EXCEPT !.pressure = Tenths(v)])
                  IN /\ call'.op \in {"marker", "brush", "wet", "oil"} =>
                          /\ Len(low.stamped) = Len(stamped')
                          /\ \A i \in DOMAIN stamped' :
                                /\ low.stamped[i].r <= stamped'[i].r
                                /\ low.stamped[i].alpha <= stamped'[i].alpha
                     /\ call'.op = "dry" =>
                          drySpread(g.size, Tenths(v)) <= drySpread(g.size, g.pressure)
                     /\ call'.op = "knife" =>
                          /\ Len(Filled(low.ops)) = Len(Filled(ops'))
                          /\ \A i \in DOMAIN Filled(ops') :
                                /\ Filled(low.ops)[i].w <= Filled(ops')[i].w
                                /\ Filled(low.ops)[i].h <= Filled(ops')[i].h]_vars

\* wet drew with a pressure above 1 and submitted larger stamps than it
\* does with pressure 0
C13_Witness ==
    /\ call.op = "wet" /\ ctx # Null
    /\ call.arg.g.pressure > Unit
    /\ Len(stamped) >= 4
    /\ stamped[1].r > wetCoreRadius(call.arg.g.size, 0)

\* C14: splatter on an attached context submits a count of stamps that
\* depends on the intensity alone: none for an intensity of 0 or below,
\* between 7 and 15 for intensity 1, not fewer than for any lower
\* intensity; every stamp lies within the spread around (x, y)
C14_SplatterCount ==
    [][(call'.op = "splatter" /\ ctx # Null) =>
          LET g == call'.arg.g
              spread == Mul(g.pressure * 60, g.size)
          IN /\ g.pressure <= 0 => Len(stamped') = 0
             /\ g.pressure = Unit => (Len(stamped') >= 7 /\ Len(stamped') <= 15)
             /\ \A v \in Intensities, tape \in Tapes :
                   LET other == splatter([Cur EXCEPT !.tape = tape], g.x, g.y,
                                         Tenths(v), g.color, g.size)
                   IN /\ Tenths(v) = g.pressure =>
                            Len(other.stamped) = Len(stamped')
                      /\ Tenths(v) < g.pressure =>
                            Len(other.stamped) <= Len(stamped')
             /\ \A i \in DOMAIN stamped' :
                   /\ Abs(stamped'[i].x - g.x) <= spread
                   /\ Abs(stamped'[i].y - g.y) <= spread]_vars

\* splatter ran with intensity 1 and submitted its stamps away from (x, y)
C14_Witness ==
    /\ call.op = "splatter" /\ ctx # Null
    /\ call.arg.g.pressure = Unit
    /\ Len(stamped) = 15
    /\ \E i \in DOMAIN stamped : stamped[i].x # call.arg.g.x

\* the calls that request noise: the direct call, and brush, dry, wet and
\* organic on an attached context with something to draw
RequestsNoise ==
    \/ call'.op = "noise"
    \/ call'.op \in {"brush", "dry", "wet"} /\ ctx # Null
    \/ call'.op = "organic" /\ ctx # Null /\ width > 0 /\ height > 0

\* C15: the noise table is untouched until the first call that requests
\* noise, which builds it; once built it holds a permutation of 0..255 in
\* entries 0..255 and the same values in entries 256..511, and no call
\* changes it again; a noise call returns the value the table it found
\* determines, so the same inputs give the same output
C15_TableBuiltOnce ==
    [][/\ ~noise_initialized' =>
            \A i \in DOMAIN noise_p' : noise_p'[i] = 0
       /\ noise_initialized' =>
            /\ {noise_p'[i] : i \in 1..TableSize} = 0..(TableSize - 1)
            /\ \A i \in 1..TableSize : noise_p'[i + TableSize] = noise_p'[i]
       /\ noise_initialized' = (noise_initialized \/ RequestsNoise)
       /\ noise_initialized => noise_p' = noise_p
       /\ (call'.op = "noise" /\ noise_initialized) =>
            call'.out = noiseValue(noise_p, call'.arg[1], call'.arg[2], call'.arg[3])
       /\ (call'.op = "noise" /\ call.op = "noise" /\ call'.arg = call.arg) =>
            call'.out = call.out]_vars

\* noise was called after a brush stroke had built the table from random
\* values that moved its first entry, and returned a value other than 0
C15_Witness ==
    /\ call.op = "noise" /\ strokes = 1
    /\ noise_initialized /\ noise_p[1] # 0
    /\ call.out # 0

\* C16: while the loop is running a drawing context is attached, and after
\* an init that throws no context remains attached
C16_RunningHasContext ==
    /\ running => ctx # Null
    /\ (call.op = "init" /\ ret = "throw") => ctx = Null

\* a subscription is active, so a change of size runs resize()
Notified == (observers # {} \/ winListener) /\ canvas # Null

\* C17: a resize notification acts only on the main canvas's own context,
\* also while a render target is active; after the restore() that follows
\* it the main canvas's context carries the device-pixel-ratio transform
\* and the logical size is the canvas size divided by the ratio
C17_ResizeOnMainCanvas ==
    [][/\ (call'.op = "resizeEvent" /\ Notified) =>
            \A i \in DOMAIN ops' : ops'[i][2] = canvas
       /\ (call.op = "resizeEvent" /\ call'.op = "restore" /\ Notified) =>
            /\ ctx' = canvas
            /\ surf'[canvas].xf = dpr
            /\ width' * dpr = cdim'[canvas].w
            /\ height' * dpr = cdim'[canvas].h]_vars

====
